---- MODULE Spec2Model ----
(***************************************************************************)
(* A model of rsa.cpp: the number-theoretic helpers of Utility::Math, the  *)
(* key derivation of namespace Generate, encode/decode, and the control    *)
(* flow of main().                                                         *)
(*                                                                         *)
(* long long int is modelled at its real width: the accumulator of         *)
(* Utility::Math::power is a 64-bit two's-complement word held as four     *)
(* 16-bit limbs.  The float/double arithmetic of Generate::privateKey is   *)
(* modelled in fixed point with a resolution of 2^-25, the unit in the     *)
(* last place of the float 1.0f / e for e in 2..4.                         *)
(***************************************************************************)
EXTENDS Integers, Sequences, FiniteSets, TLC

VARIABLES
    pc,          \* position of main(): see the actions below
    p, q,        \* main: the two integers read from the user
    publicKey,   \* main: Key::Public  {n, e}
    privateKey,  \* main: Key::Private {p, q, d}
    k,           \* Generate::privateKey: the search counter
    m,           \* main: the message read from the user
    c,           \* main: encode's result
    m_decoded,   \* main: decode's result
    wrapped,     \* ghost: power's accumulator has left the signed 64-bit range
    a, b,        \* arguments of a direct call of Utility::Math::areCoprimes
    cpc,         \* position of that call: "call" or "returned"
    ret,         \* its return value
    pastEnd      \* ghost: the call read a divisor list at an index >= its size

vars == <<pc, p, q, publicKey, privateKey, k, m, c, m_decoded, wrapped,
          a, b, cpc, ret, pastEnd>>

mainVars == <<pc, p, q, publicKey, privateKey, k, m, c, m_decoded, wrapped>>
coprimeVars == <<a, b, cpc, ret, pastEnd>>

----------------------------------------------------------------------------
(* Bounds of the model.                                                    *)

\* p and q are read from -MaxNeg..MaxIn
MaxNeg == 2
MaxIn == 11
\* the arguments of a direct areCoprimes call are read from 1..MaxArg
MaxArg == 12
\* the search counter of Generate::privateKey is followed up to MaxK; a
\* search that has not succeeded by then is not followed further
MaxK == 4

----------------------------------------------------------------------------
(* Mathematical reference notions, used only to state properties.          *)

Abs(x) == IF x < 0 THEN -x ELSE x

RECURSIVE Gcd(_, _)
Gcd(x, y) == IF y = 0 THEN Abs(x) ELSE Gcd(y, Abs(x) % Abs(y))

\* a prime: an integer greater than 1 divisible only by 1 and itself
IsPrimeNumber(x) == x > 1 /\ \A i \in 2..(x - 1) : x % i /= 0

\* (base^ex) mod n over the mathematical integers, n > 0, ex >= 0
RECURSIVE ModExp(_, _, _)
ModExp(base, ex, n) ==
    IF ex = 0 THEN 1 % n ELSE ((base % n) * ModExp(base, ex - 1, n)) % n

----------------------------------------------------------------------------
(* Utility::Math                                                           *)

\* for (int i{2}; i < x; ++i) if (x % i == 0) return false; return true;
isPrime(x) == \A i \in 2..(x - 1) : x % i /= 0

\* for (i = 1; i <= x; ++i) if (x % i == 0) push_back(i): the divisors of x
\* in ascending order (x >= 1 at every call the program makes)
dividerList(x) ==
    LET isDivider(i) == x % i = 0
    IN  SelectSeq([i \in 1..x |-> i], isDivider)

\* The inner loop of areCoprimes from 0-based index i on: the set of ways it
\* can end.  ret = FALSE is "return false", ret = TRUE is "loop finished".
\* a_dividerList[i] is always in range; b_dividerList[i] is read with the
\* index of the OTHER list, so for i >= size it is a read past the end of
\* the vector, whose value is indeterminate: it may or may not compare equal.
RECURSIVE innerLoop(_, _, _, _)
innerLoop(al, bl, i, over) ==
    IF ~(i < Len(al)) THEN {[ret |-> TRUE, pastEnd |-> over]}
    ELSE IF i < Len(bl)
         THEN IF al[i + 1] = bl[i + 1]
              THEN {[ret |-> FALSE, pastEnd |-> over]}
              ELSE innerLoop(al, bl, i + 1, over)
         ELSE {[ret |-> FALSE, pastEnd |-> TRUE]}
              \cup innerLoop(al, bl, i + 1, TRUE)

\* The outer loop of areCoprimes from 0-based index j on.
RECURSIVE outerLoop(_, _, _, _)
outerLoop(al, bl, j, over) ==
    IF ~(j < Len(bl)) THEN {[ret |-> TRUE, pastEnd |-> over]}
    ELSE LET ends == innerLoop(al, bl, 1, over)
         IN  {o \in ends : ~o.ret}
             \cup UNION {outerLoop(al, bl, j + 1, o.pastEnd) : o \in {o \in ends : o.ret}}

\* areCoprimes(x, y): the set of possible results of one call
areCoprimes(x, y) ==
    IF x = 1 \/ y = 1 THEN {[ret |-> TRUE, pastEnd |-> FALSE]}
    ELSE outerLoop(dividerList(x), dividerList(y), 1, FALSE)

\* phi(n, p, q): the two asserts, then the value
phiAsserts(n, x, y) == x * y = n /\ isPrime(x) /\ isPrime(y)
phi(n, x, y) == (x - 1) * (y - 1)

----------------------------------------------------------------------------
(* long long int: a 64-bit two's-complement word as four 16-bit limbs,     *)
(* least significant first.                                                *)

LimbBase == 65536
SignLimb == 32768

\* the word of a value 0 <= v < 2^31
toWord(v) == <<v % LimbBase, v \div LimbBase, 0, 0>>

\* word * x for 0 <= x < 2^15: the low 64 bits of the product and the carry
\* out of bit 63
mulWord(w, x) ==
    LET t1 == w[1] * x
        t2 == w[2] * x + (t1 \div LimbBase)
        t3 == w[3] * x + (t2 \div LimbBase)
        t4 == w[4] * x + (t3 \div LimbBase)
    IN  [word  |-> <<t1 % LimbBase, t2 % LimbBase, t3 % LimbBase, t4 % LimbBase>>,
         carry |-> t4 \div LimbBase]

\* the word read as a signed value is negative
isNegative(w) == w[4] >= SignLimb

\* two's-complement negation: 2^64 - w
negWord(w) ==
    LET n1 == (LimbBase - 1 - w[1]) + 1
        n2 == (LimbBase - 1 - w[2]) + (n1 \div LimbBase)
        n3 == (LimbBase - 1 - w[3]) + (n2 \div LimbBase)
        n4 == (LimbBase - 1 - w[4]) + (n3 \div LimbBase)
    IN  <<n1 % LimbBase, n2 % LimbBase, n3 % LimbBase, n4 % LimbBase>>

\* the word read as an unsigned value, modulo n, for 0 < n < 2^15
unsignedMod(w, n) ==
    LET r4 == w[4] % n
        r3 == (r4 * LimbBase + w[3]) % n
        r2 == (r3 * LimbBase + w[2]) % n
    IN  (r2 * LimbBase + w[1]) % n

\* the C++ expression  w % n  for a signed word w and 0 < n < 2^15: the
\* quotient truncates toward zero, so the remainder has the dividend's sign
wordRem(w, n) ==
    IF isNegative(w) THEN 0 - unsignedMod(negWord(w), n) ELSE unsignedMod(w, n)

\* for (i = 1; i < exponent; ++i) result *= x;   from iteration i on, with
\* the accumulator acc.  over records that some product left the signed
\* 64-bit range; the word kept is the low 64 bits of the product.
RECURSIVE powerLoop(_, _, _, _, _)
powerLoop(acc, x, i, exponent, over) ==
    IF ~(i < exponent) THEN [word |-> acc, over |-> over]
    ELSE LET prod == mulWord(acc, x)
         IN  IF prod.carry /= 0 \/ isNegative(prod.word)
             THEN powerLoop(prod.word, x, i + 1, exponent, TRUE)
             ELSE powerLoop(prod.word, x, i + 1, exponent, over)

\* power with its loop started at 0 instead of 1: one multiplication too many
power_LoopFromZero(x, exponent) ==
    IF exponent = 0 THEN [word |-> toWord(1), over |-> FALSE]
    ELSE powerLoop(toWord(x), x, 0, exponent, FALSE)

\* power(x, exponent) for 0 <= x < 2^15
power(x, exponent) ==
    IF exponent = 0 THEN [word |-> toWord(1), over |-> FALSE]
    ELSE powerLoop(toWord(x), x, 1, exponent, FALSE)

----------------------------------------------------------------------------
(* Generate::publicKey                                                     *)

\* the scan  for (i = 2; i < n_eulero; ++i) if (areCoprimes(i, n_eulero))
\* from i on: the set of values e can end with (e stays 0 if none is chosen)
RECURSIVE exponentScan(_, _)
exponentScan(i, n_eulero) ==
    IF ~(i < n_eulero) THEN {0}
    ELSE LET outs == {o.ret : o \in areCoprimes(i, n_eulero)}
         IN  (IF TRUE \in outs THEN {i} ELSE {})
             \cup (IF FALSE \in outs THEN exponentScan(i + 1, n_eulero) ELSE {})

----------------------------------------------------------------------------
(* Generate::privateKey: the floating-point test of one iteration.         *)
(* A value is a pair (int, frac) with frac counted in units of 2^-25.      *)

FracUnit == 33554432

\* x / y rounded to the nearest integer, x >= 0, y > 0
roundDiv(x, y) == (2 * x + y) \div (2 * y)

\* constexpr double epsilon { 0.0001f }  in units of 2^-25 (3355.44...)
epsilon == 3355

\* 1.0f / publicKey.e : the integer operand is converted to float and the
\* quotient is rounded to float
floatReciprocal(e) == roundDiv(FracUnit, e)

\* temp_d = (1.0f / e) + k * (static_cast<double>(n_eulero) / e), n_eulero >= 0, e > 0
temp_d(kk, n_eulero, e) ==
    LET quotInt  == n_eulero \div e
        quotFrac == roundDiv((n_eulero % e) * FracUnit, e)
        units    == floatReciprocal(e) + kk * quotFrac
    IN  [int  |-> kk * quotInt + (units \div FracUnit),
         frac |-> units % FracUnit]

\* temp_d <= static_cast<long long int>(temp_d) + epsilon.
\* With e = 0 both quotients are infinite or NaN and no comparison of an
\* infinity or a NaN with the converted value holds.
isExactQuotient(kk, n_eulero, e) ==
    IF e = 0 THEN FALSE ELSE temp_d(kk, n_eulero, e).frac <= epsilon

----------------------------------------------------------------------------
(* A direct call of Utility::Math::areCoprimes(a, b)                       *)

CoprimeInit ==
    /\ a \in 1..MaxArg /\ b \in 1..MaxArg
    /\ cpc = "call" /\ ret = FALSE /\ pastEnd = FALSE
    /\ pc = "idle" /\ p = 0 /\ q = 0
    /\ publicKey = [n |-> 0, e |-> 0]
    /\ privateKey = [p |-> 0, q |-> 0, d |-> 0]
    /\ k = 0 /\ m = 0 /\ c = 0 /\ m_decoded = 0 /\ wrapped = FALSE

CallAreCoprimes ==
    /\ cpc = "call"
    /\ \E o \in areCoprimes(a, b) :
          /\ ret' = o.ret
          /\ pastEnd' = o.pastEnd
    /\ cpc' = "returned"
    /\ UNCHANGED <<a, b>>
    /\ UNCHANGED mainVars

CoprimeNext == CallAreCoprimes

CoprimeSpec == CoprimeInit /\ [][CoprimeNext]_vars

----------------------------------------------------------------------------
(* main()                                                                  *)

\* the values of pc at which Generate::publicKey has returned its key
publicKeyReturned ==
    pc \in {"publicKeyDone", "findK", "keysDone", "haveM", "encoded", "trapped", "done"}

\* the values of pc at which Generate::privateKey has returned its key
privateKeyReturned ==
    pc \in {"keysDone", "haveM", "encoded", "trapped", "done"}

Init ==
    /\ pc = "start"
    /\ p \in (0 - MaxNeg)..MaxIn /\ q \in (0 - MaxNeg)..MaxIn
    /\ publicKey = [n |-> 0, e |-> 0]
    /\ privateKey = [p |-> 0, q |-> 0, d |-> 0]
    /\ k = 0 /\ m = 0 /\ c = 0 /\ m_decoded = 0 /\ wrapped = FALSE
    /\ a = 1 /\ b = 1 /\ cpc = "idle" /\ ret = FALSE /\ pastEnd = FALSE

\* const Key::Public publicKey { Generate::publicKey(p, q) };
GeneratePublicKey ==
    /\ pc = "start"
    /\ IF ~(isPrime(p) /\ isPrime(q))
       THEN /\ pc' = "aborted"
            /\ UNCHANGED publicKey
       ELSE LET n == p * q
            IN  IF ~phiAsserts(n, p, q)
                THEN /\ pc' = "aborted"
                     /\ UNCHANGED publicKey
                ELSE /\ \E e \in exponentScan(2, phi(n, p, q)) :
                            publicKey' = [n |-> n, e |-> e]
                     /\ pc' = "publicKeyDone"
    /\ UNCHANGED <<p, q, privateKey, k, m, c, m_decoded, wrapped>>
    /\ UNCHANGED coprimeVars

\* Generate::privateKey(p, q, publicKey) up to the first iteration of its loop
PrivateKeyBegin ==
    /\ pc = "publicKeyDone"
    /\ IF ~(isPrime(p) /\ isPrime(q) /\ phiAsserts(publicKey.n, p, q))
       THEN /\ pc' = "aborted"
            /\ UNCHANGED k
       ELSE /\ k' = 1
            /\ pc' = "findK"
    /\ UNCHANGED <<p, q, publicKey, privateKey, m, c, m_decoded, wrapped>>
    /\ UNCHANGED coprimeVars

\* one iteration of the do-while loop of Generate::privateKey
PrivateKeyIterate ==
    /\ pc = "findK"
    /\ LET n_eulero == phi(publicKey.n, p, q)
       IN  IF isExactQuotient(k, n_eulero, publicKey.e)
           THEN /\ privateKey' = [p |-> p, q |-> q,
                                  d |-> temp_d(k, n_eulero, publicKey.e).int]
                /\ pc' = "keysDone"
                /\ UNCHANGED k
           ELSE /\ k < MaxK
                /\ k' = k + 1
                /\ UNCHANGED <<privateKey, pc>>
    /\ UNCHANGED <<p, q, publicKey, m, c, m_decoded, wrapped>>
    /\ UNCHANGED coprimeVars

\* std::cin >> m;  assert(0 < m && m < publicKey.n);
ReadMessage ==
    /\ pc = "keysDone"
    /\ \E in \in 0..(MaxIn * MaxIn) :
          /\ m' = in
          /\ pc' = IF 0 < in /\ in < publicKey.n THEN "haveM" ELSE "aborted"
    /\ UNCHANGED <<p, q, publicKey, privateKey, k, c, m_decoded, wrapped>>
    /\ UNCHANGED coprimeVars

\* power(x, exponent) % n as the program can observe it.  A product that
\* leaves the signed 64-bit range is undefined behaviour: the build either
\* keeps the low 64 bits or traps.
powerRem(x, exponent, n) ==
    LET r == power(x, exponent)
    IN  {[trap |-> FALSE, value |-> wordRem(r.word, n), over |-> r.over]}
        \cup (IF r.over THEN {[trap |-> TRUE, value |-> 0, over |-> TRUE]} ELSE {})

\* const long long int c { encode(publicKey, m) };
Encode ==
    /\ pc = "haveM"
    /\ \E o \in powerRem(m, publicKey.e, publicKey.n) :
          /\ pc' = IF o.trap THEN "trapped" ELSE "encoded"
          /\ c' = IF o.trap THEN c ELSE o.value
          /\ wrapped' = (wrapped \/ o.over)
    /\ UNCHANGED <<p, q, publicKey, privateKey, k, m, m_decoded>>
    /\ UNCHANGED coprimeVars

\* const long long int m_decoded { decode(publicKey, privateKey, c) };
\* c is never negative here: encode's power(m, e) stays in range for every
\* m < n the model reads, so its remainder is in 0..n-1.
Decode ==
    /\ pc = "encoded"
    /\ c >= 0
    /\ \E o \in powerRem(c, privateKey.d, publicKey.n) :
          /\ pc' = IF o.trap THEN "trapped" ELSE "done"
          /\ m_decoded' = IF o.trap THEN m_decoded ELSE o.value
          /\ wrapped' = (wrapped \/ o.over)
    /\ UNCHANGED <<p, q, publicKey, privateKey, k, m, c>>
    /\ UNCHANGED coprimeVars

Next ==
    \/ GeneratePublicKey
    \/ PrivateKeyBegin
    \/ PrivateKeyIterate
    \/ ReadMessage
    \/ Encode
    \/ Decode

Spec == Init /\ [][Next]_vars

----------------------------------------------------------------------------
(* Properties                                                              *)

bothPrime == IsPrimeNumber(p) /\ IsPrimeNumber(q)

\* C1: round trip.  For primes p and q and a message 0 < m < p*q, the value
\* decoded from the encoded message is the message.
C1_RoundTrip ==
    (bothPrime /\ pc = "done") => m_decoded = m

\* C2: the chain for p = 3, q = 11.  publicKey returns n = 33, e = 3;
\* privateKey returns d = 7; m = 7 encodes to c = 13; c = 13 decodes to 7.
\* Nothing fails on the way except main's range check of another message.
C2_Chain_3_11 ==
    (p = 3 /\ q = 11) =>
        /\ pc = "aborted" => (publicKey = [n |-> 33, e |-> 3] /\ privateKey.d = 7 /\ m /= 7)
        /\ publicKeyReturned => publicKey = [n |-> 33, e |-> 3]
        /\ privateKeyReturned => privateKey = [p |-> 3, q |-> 11, d |-> 7]
        /\ (m = 7 /\ privateKeyReturned) => pc \in {"haveM", "encoded", "done"}
        /\ (m = 7 /\ pc \in {"encoded", "done"}) => c = 13
        /\ (m = 7 /\ pc = "done") => m_decoded = 7

C2_Witness ==
    p = 3 /\ q = 11 /\ m = 7 /\ pc = "done" /\ c = 13 /\ m_decoded = 7

\* C3: for primes p and q the key returned by publicKey has n = p*q and e the
\* smallest integer >= 2 coprime with phi = (p-1)*(q-1); so 1 < e < phi and
\* gcd(e, phi) = 1.
C3_SmallestCoprimeExponent ==
    (bothPrime /\ publicKeyReturned) =>
        LET n_eulero == (p - 1) * (q - 1)
        IN  /\ publicKey.n = p * q
            /\ 1 < publicKey.e /\ publicKey.e < n_eulero
            /\ Gcd(publicKey.e, n_eulero) = 1
            /\ \A i \in 2..(publicKey.e - 1) : Gcd(i, n_eulero) /= 1

\* C4: for primes p and q, once privateKey is called with the key of
\* publicKey, the unique integer in [1, phi) with (e * d) mod phi = 1 exists,
\* and the d that privateKey returns is that integer; it is (1 + k*phi) / e
\* for the smallest positive k that makes the quotient exact.
C4_PrivateExponent ==
    (bothPrime /\ (pc = "findK" \/ privateKeyReturned)) =>
        LET n_eulero == (p - 1) * (q - 1)
            e == publicKey.e
            d == privateKey.d
        IN  /\ e > 0 /\ n_eulero > 1
            /\ \E x \in 1..(n_eulero - 1) : (e * x) % n_eulero = 1
            /\ privateKeyReturned =>
                  /\ d \in 1..(n_eulero - 1)
                  /\ (e * d) % n_eulero = 1
                  /\ \A x \in 1..(n_eulero - 1) : (e * x) % n_eulero = 1 => x = d
                  /\ k >= 1
                  /\ e * d = 1 + k * n_eulero
                  /\ \A j \in 1..(k - 1) : (1 + j * n_eulero) % e /= 0

\* C5: for positive a and b, areCoprimes(a, b) returns true iff gcd(a, b) = 1.
C5_CoprimeIffGcdOne ==
    cpc = "returned" => (ret <=> Gcd(a, b) = 1)

\* C6: key generation rejects non-primes.  If p or q is not a prime, the
\* precondition check fails and no key is ever returned.
C6_RejectsNonPrimes ==
    ~bothPrime => pc \in {"start", "aborted"}

\* C7: for primes p and q for which no e in 2..phi-1 is accepted as coprime
\* with phi, publicKey fails instead of returning a key.
C7_NoValidExponentFails ==
    LET n_eulero == (p - 1) * (q - 1)
        accepted(i) == \E o \in areCoprimes(i, n_eulero) : o.ret
    IN  (bothPrime /\ ~(\E i \in 2..(n_eulero - 1) : accepted(i)))
            => ~publicKeyReturned

\* C8: encode returns exactly (m^e) mod n and decode exactly (c^d) mod n over
\* the mathematical integers; power's accumulator never leaves the signed
\* 64-bit range.
C8_ExactModularPower ==
    /\ ~wrapped
    /\ pc /= "trapped"
    /\ pc \in {"encoded", "done"} => c = ModExp(m, publicKey.e, publicKey.n)
    /\ pc = "done" => m_decoded = ModExp(c, privateKey.d, publicKey.n)

\* C9: for primes p and q the search loop of privateKey terminates: while it
\* runs, some k >= 1 makes (1 + k*phi) / e an integer, and the test of the
\* loop accepts that k, so a private key is eventually returned.
C9_PrivateKeyTerminates ==
    (bothPrime /\ pc = "findK") =>
        LET n_eulero == (p - 1) * (q - 1)
            e == publicKey.e
        IN  /\ e > 0
            /\ \E kk \in 1..e : /\ (1 + kk * n_eulero) % e = 0
                                /\ isExactQuotient(kk, n_eulero, e)

\* C10: for a >= 2 and b >= 2 no element read in areCoprimes(a, b) is past
\* the end of the divisor list it is read from.
C10_NoReadPastEnd ==
    (cpc = "returned" /\ a >= 2 /\ b >= 2) => ~pastEnd

====
